---- MODULE Spec2Model ----
(***************************************************************************)
(* Model of the LockedIn backend (src/backend/server.py): the reminder     *)
(* scheduling function schedule_daily_reminders, the APScheduler job store *)
(* it mutates, the API handlers that call it, the firing of the jobs, and  *)
(* the sheets store (src/backend/sheets.py).                               *)
(*                                                                         *)
(* Python strings are modelled as sequences of one-character strings so    *)
(* that str.split, int(), f-string formatting and the `in` substring test  *)
(* are computed, not assumed.                                              *)
(***************************************************************************)
EXTENDS Integers, Sequences, FiniteSets, TLC

VARIABLES
    users,    \* db.users: the stored user documents, in insertion order
    jobs,     \* the scheduler's job store
    req,      \* the API requests in flight, one record per request slot
    started,  \* number of API requests received so far
    sending,  \* the job whose send_whatsapp_message call is in progress, if any
    last,     \* history: the most recent direct call of schedule_daily_reminders
    applied,  \* history: per phone, the plan most recently applied by a request
    fired,    \* history: the most recent completed delivery
    resp,     \* the most recent response of the API to a caller
    welcomed, \* per phone, the number of send_welcome_email calls made
    listed,   \* the most recent answer of get_scheduled_jobs
    sheet,    \* sheets.py: the rows of the worksheet below the header
    inserted, \* history: the user_data of each insert_user call, by row
    got       \* the return value of the most recent get_user_by_phone call

vars ==
    <<users, jobs, req, started, sending, last, applied, fired, resp, welcomed,
      listed, sheet, inserted, got>>

\* the variables of the sheets store
sheetVars == <<sheet, inserted, got>>

\* what a caller and the welcome mailer have seen
outVars == <<resp, welcomed>>

\* the variables of the scheduler's firings
fireVars == <<sending, fired>>

(***************************************************************************)
(* Bounds of the model.                                                    *)
(***************************************************************************)
MaxGoals == 2
MaxTimes == 2
MaxCalls == 3
MaxRequests == 3
MaxSignups == 2
MaxInFlight == 2
MaxStrLen == 1
MaxListLen == 2
MaxRows == 2

(***************************************************************************)
(* Input alphabet.                                                         *)
(***************************************************************************)
Digits == <<"0", "1", "2", "3", "4", "5", "6", "7", "8", "9">>

\* contact identifiers (User.phone is an unconstrained str)
PhoneA == <<"+", "1">>
PhoneB == <<"+", "1", "2">>
Phones == {PhoneA, PhoneB}

GoalNames == <<"Exercise", "Read", "Hydrate", "Sleep">>
GoalLists == {SubSeq(GoalNames, 1, n) : n \in 0..MaxGoals}

T0900 == <<"0", "9", ":", "0", "0">>
T0030 == <<"0", "0", ":", "3", "0">>
T2530 == <<"2", "5", ":", "3", "0">>
T2561 == <<"2", "5", ":", "6", "1">>
Tab == <<"a", "b">>
TimeStrs == {T0900, T0030, T2530, T2561, Tab}

RECURSIVE SeqsUpTo(_, _)
SeqsUpTo(S, n) ==
    IF n = 0 THEN {<<>>}
    ELSE LET shorter == SeqsUpTo(S, n - 1)
         IN shorter \cup {Append(s, x) : s \in {q \in shorter : Len(q) = n - 1}, x \in S}

TimeLists == SeqsUpTo(TimeStrs, MaxTimes)

\* the API specification draws its reminder times from a few lists, which
\* leaves room for the interleavings of its requests: none, one valid time,
\* two valid times with the wrap at local 00:xx, and a malformed first time
ApiTimeLists == {<<>>, <<T0900>>, <<T0030, T0900>>, <<T2561, T0900>>}

Slots == 1..MaxInFlight

\* the sheets store takes any list of strings: strings over a letter and
\* the separator, and lists of them, the empty list included
Bar == "|"
SheetChars == {"a", Bar}
SheetStrs == SeqsUpTo(SheetChars, MaxStrLen)
SheetLists == SeqsUpTo(SheetStrs, MaxListLen)

\* reminder times handed to the sheets store: none, one, two, and a string
\* that holds the separator
SheetTimeLists == {<<>>, <<T0900>>, <<T0900, T0030>>, <<<<Bar>>>>}

\* every local time HH:MM with the hour in 0..23 and one of these minutes
Minutes == {0, 59}

HHMM(h, m) ==
    <<Digits[(h \div 10) + 1], Digits[(h % 10) + 1], ":",
      Digits[(m \div 10) + 1], Digits[(m % 10) + 1]>>

(***************************************************************************)
(* Python string primitives used by schedule_daily_reminders.              *)
(***************************************************************************)
IsDigit(c) == \E d \in 1..10 : Digits[d] = c

DigitVal(c) == (CHOOSE d \in 1..10 : Digits[d] = c) - 1

\* reminder_time.split(':')
RECURSIVE split(_, _)
split(s, sep) ==
    IF \A k \in 1..Len(s) : s[k] # sep THEN <<s>>
    ELSE LET k == CHOOSE i \in 1..Len(s) : s[i] = sep /\ \A m \in 1..(i - 1) : s[m] # sep
         IN <<SubSeq(s, 1, k - 1)>> \o split(SubSeq(s, k + 1, Len(s)), sep)

\* the digits of an int() literal, after an optional sign
IntBody(s) == IF s # <<>> /\ Head(s) \in {"+", "-"} THEN Tail(s) ELSE s

\* int(s) does not raise ValueError (sign and decimal digits; the input
\* alphabet has no whitespace and no '_' digit separators)
IntOk(s) == IntBody(s) # <<>> /\ \A k \in 1..Len(IntBody(s)) : IsDigit(IntBody(s)[k])

RECURSIVE DigitsVal(_)
DigitsVal(s) ==
    IF s = <<>> THEN 0
    ELSE DigitsVal(SubSeq(s, 1, Len(s) - 1)) * 10 + DigitVal(s[Len(s)])

\* int(s)
IntVal(s) == IF s # <<>> /\ Head(s) = "-" THEN 0 - DigitsVal(IntBody(s)) ELSE DigitsVal(IntBody(s))

RECURSIVE NatToStr(_)
NatToStr(n) ==
    IF n < 10 THEN <<Digits[n + 1]>>
    ELSE NatToStr(n \div 10) \o <<Digits[(n % 10) + 1]>>

\* f"{n}" for an int n
IntToStr(n) == IF n < 0 THEN <<"-">> \o NatToStr(0 - n) ELSE NatToStr(n)

\* a in b, for Python strings
IsSubstring(a, b) ==
    \E k \in 1..(Len(b) - Len(a) + 1) : SubSeq(b, k, k + Len(a) - 1) = a

(***************************************************************************)
(* schedule_daily_reminders                                                *)
(***************************************************************************)
\* hour, minute = map(int, reminder_time.split(':'))
ParseTime(reminder_time) ==
    LET parts == split(reminder_time, ":")
    IN IF Len(parts) = 2 /\ IntOk(parts[1]) /\ IntOk(parts[2])
       THEN [ok |-> TRUE, hour |-> IntVal(parts[1]), minute |-> IntVal(parts[2])]
       ELSE [ok |-> FALSE, hour |-> 0, minute |-> 0]

\* mutation: the offset is added instead of subtracted
UtcHour_Added(hour) == (hour + 1) % 24

\* utc_hour = (hour - 1) % 24
UtcHour(hour) == (hour - 1) % 24

\* CronTrigger(hour=utc_hour, minute=minute, timezone=pytz.UTC) does not
\* raise: APScheduler 3.x rejects a field value that is not a non-negative
\* number within the field's range
CronTrigger(utc_hour, minute) == utc_hour \in 0..23 /\ minute \in 0..59

Underscore == <<"_">>
ReminderPrefix == <<"r", "e", "m", "i", "n", "d", "e", "r", "_">>

\* id=f"reminder_{user_phone}_{hour}_{minute}_{i}"
JobId(user_phone, hour, minute, i) ==
    ReminderPrefix \o user_phone \o Underscore \o IntToStr(hour)
        \o Underscore \o IntToStr(minute) \o Underscore \o IntToStr(i)

\* the job handed to scheduler.add_job for pair i (0-based)
MakeJob(user_phone, goal, hour, minute, i) ==
    [id |-> JobId(user_phone, hour, minute, i),
     phone |-> user_phone,
     goal |-> goal,
     hour |-> hour,
     minute |-> minute,
     idx |-> i,
     utc_hour |-> UtcHour(hour),
     utc_minute |-> minute]

\* scheduler.add_job(..., id=..., replace_existing=True)
add_job(js, job) == {j \in js : j.id # job.id} \cup {job}

\* mutation: the clearing step compares the id with the phone for equality,
\* so it never selects a job
ClearJobs_Equality(js, user_phone) == {j \in js : j.id # user_phone}

\* mutation: the clearing step removes jobs from the list it iterates over
\* and stops after the first removal
ClearJobs_FirstOnly(js, user_phone) ==
    LET hit == {j \in js : IsSubstring(user_phone, j.id)}
    IN IF hit = {} THEN js ELSE js \ {CHOOSE j \in hit : TRUE}

\* for job in scheduler.get_jobs(): if user_phone in job.id: remove_job
ClearJobs(js, user_phone) == {j \in js : ~IsSubstring(user_phone, j.id)}

\* mutation: the loop lacks `if i < len(goals)`, so goals[i] raises
\* IndexError for a surplus time
RECURSIVE InstallFrom_NoGoalGuard(_, _, _, _, _)
InstallFrom_NoGoalGuard(js, user_phone, goals, reminder_times, k) ==
    IF k > Len(reminder_times) THEN [jobs |-> js, ok |-> TRUE]
    ELSE LET t == ParseTime(reminder_times[k])
         IN IF ~t.ok \/ k > Len(goals) THEN [jobs |-> js, ok |-> FALSE]
            ELSE IF ~CronTrigger(UtcHour(t.hour), t.minute) THEN [jobs |-> js, ok |-> FALSE]
            ELSE InstallFrom_NoGoalGuard(
                     add_job(js, MakeJob(user_phone, goals[k], t.hour, t.minute, k - 1)),
                     user_phone, goals, reminder_times, k + 1)

\* the enumerate loop from (1-based) position k on; ok = FALSE is the
\* except branch, which keeps whatever was installed before the exception
RECURSIVE InstallFrom(_, _, _, _, _)
InstallFrom(js, user_phone, goals, reminder_times, k) ==
    IF k > Len(reminder_times) THEN [jobs |-> js, ok |-> TRUE]
    ELSE IF k <= Len(goals)
    THEN LET t == ParseTime(reminder_times[k])
         IN IF ~t.ok THEN [jobs |-> js, ok |-> FALSE]
            ELSE IF ~CronTrigger(UtcHour(t.hour), t.minute) THEN [jobs |-> js, ok |-> FALSE]
            ELSE InstallFrom(add_job(js, MakeJob(user_phone, goals[k], t.hour, t.minute, k - 1)),
                             user_phone, goals, reminder_times, k + 1)
    ELSE InstallFrom(js, user_phone, goals, reminder_times, k + 1)

schedule_daily_reminders(js, user_phone, goals, reminder_times) ==
    InstallFrom(ClearJobs(js, user_phone), user_phone, goals, reminder_times, 1)

(***************************************************************************)
(* State.                                                                  *)
(***************************************************************************)
\* class User: the fields the handlers read; timezone has the default only,
\* UserCreate has no timezone field
DefaultTimezone == "GMT+1"

User(phone, goals, reminder_times) ==
    [phone |-> phone, goals |-> goals, reminder_times |-> reminder_times,
     timezone |-> DefaultTimezone]

NoUser == User(<<>>, <<>>, <<>>)

Idle == [pc |-> "idle", phone |-> <<>>, times |-> <<>>, user |-> NoUser]

NoCall ==
    [n |-> 0, phone |-> <<>>, goals |-> <<>>, times |-> <<>>, ret |-> TRUE,
     pre |-> {}, repeat |-> FALSE]

NoPlan == [called |-> FALSE, goals |-> <<>>, times |-> <<>>, ret |-> TRUE, pre |-> {}]

\* no send_whatsapp_message call is in progress
NoSend == [busy |-> FALSE, id |-> <<>>, to |-> <<>>, goal |-> ""]

NoDelivery == [done |-> FALSE, id |-> <<>>, ok |-> TRUE]

\* get_scheduled_jobs has not been called
NoListing == [taken |-> FALSE, store |-> {}, body |-> [jobs |-> {}, count |-> 0],
              plans |-> [p \in Phones |-> NoPlan]]

\* get_user_by_phone has not been called
NoResult == [called |-> FALSE, found |-> FALSE, row |-> 0, phone |-> <<>>,
             goals |-> <<>>, reminder_times |-> <<>>]

\* no request has been answered; email and sched tell what became of the
\* two sub-steps of a signup: "skipped", "ok" or "failed"
NoResponse ==
    [kind |-> "none", status |-> 0, phone |-> <<>>, user |-> NoUser,
     body |-> NoUser, email |-> "skipped", sched |-> "skipped"]

Init ==
    /\ users = <<>>
    /\ jobs = {}
    /\ req = [r \in Slots |-> Idle]
    /\ started = 0
    /\ last = NoCall
    /\ applied = [p \in Phones |-> NoPlan]
    /\ sending = NoSend
    /\ fired = NoDelivery
    /\ resp = NoResponse
    /\ welcomed = [p \in Phones |-> 0]
    /\ listed = NoListing
    /\ sheet = <<>>
    /\ inserted = <<>>
    /\ got = NoResult

\* a direct call of schedule_daily_reminders: the job store after it and
\* the record of the call (its arguments, its return value, the job store
\* before it, and whether it repeats the arguments of the call before it)
Call(user_phone, goals, reminder_times) ==
    LET res == schedule_daily_reminders(jobs, user_phone, goals, reminder_times)
    IN /\ jobs' = res.jobs
       /\ last' = [n |-> last.n + 1, phone |-> user_phone, goals |-> goals,
                   times |-> reminder_times, ret |-> res.ok, pre |-> jobs,
                   repeat |-> /\ last.n > 0
                              /\ last.phone = user_phone
                              /\ last.goals = goals
                              /\ last.times = reminder_times]

\* the call of schedule_daily_reminders made by a request: the
\* job store after it and the plan now applied for the phone, with the
\* jobs the phone's user had before the call
ApiCall(user_phone, goals, reminder_times) ==
    LET res == schedule_daily_reminders(jobs, user_phone, goals, reminder_times)
    IN /\ jobs' = res.jobs
       /\ applied' = [applied EXCEPT ![user_phone] =
                        [called |-> TRUE, goals |-> goals, times |-> reminder_times,
                         ret |-> res.ok,
                         pre |-> {j \in jobs : j.phone = user_phone}]]

(***************************************************************************)
(* SpecSched: direct calls of schedule_daily_reminders.                    *)
(***************************************************************************)
ScheduleCall(user_phone, goals, reminder_times) ==
    /\ last.n < MaxCalls
    /\ Call(user_phone, goals, reminder_times)
    /\ UNCHANGED <<users, req, started, applied, fireVars, outVars, listed, sheetVars>>

NextSched ==
    \E p \in Phones, g \in GoalLists, t \in TimeLists : ScheduleCall(p, g, t)

SpecSched == Init /\ [][NextSched]_vars

(***************************************************************************)
(* Spec: the API handlers. Each await is a point where the event loop      *)
(* runs other requests; the code between two awaits runs without           *)
(* interruption.                                                           *)
(***************************************************************************)
\* db.users.find_one({"phone": phone}): the first matching document
HasUser(phone) == \E k \in 1..Len(users) : users[k].phone = phone

FirstIndex(phone) ==
    CHOOSE k \in 1..Len(users) :
        users[k].phone = phone /\ \A m \in 1..(k - 1) : users[m].phone # phone

find_one(phone) == users[FirstIndex(phone)]

\* db.users.update_one({"phone": phone}, {"$set": {"reminder_times": times}})
update_one(phone, times) ==
    IF HasUser(phone)
    THEN [users EXCEPT ![FirstIndex(phone)].reminder_times = times]
    ELSE users

\* the event loop is not inside a blocking call: handlers and job
\* coroutines run on the one loop, and only when it is free
LoopFree == ~sending.busy

\* a new request takes the lowest free slot
FreeSlot(r) == req[r].pc = "idle" /\ \A q \in 1..(r - 1) : req[q].pc # "idle"

\* signup_user up to the completion of insert_one
SignupInsert(r, phone, goals, reminder_times) ==
    /\ LoopFree
    /\ FreeSlot(r)
    /\ started < MaxRequests
    /\ Len(users) < MaxSignups
    /\ started' = started + 1
    /\ users' = Append(users, User(phone, goals, reminder_times))
    /\ req' = [req EXCEPT ![r] = [pc |-> "inserted", phone |-> phone,
                                  times |-> reminder_times,
                                  user |-> User(phone, goals, reminder_times)]]
    /\ UNCHANGED <<jobs, last, applied, fireVars, outVars, listed, sheetVars>>

\* the body of the response of signup_user: return user
signup_response(user, email_ok, scheduled) == user

Outcome(ok) == IF ok THEN "ok" ELSE "failed"

\* mutation: signup answers 500 when scheduling fails, as the update does
SignupFinish_FailOnSchedule(r, email_ok) ==
    /\ LoopFree
    /\ req[r].pc = "inserted"
    /\ ApiCall(req[r].user.phone, req[r].user.goals, req[r].user.reminder_times)
    /\ welcomed' = [welcomed EXCEPT ![req[r].user.phone] = @ + 1]
    /\ resp' = [kind |-> "signup",
                status |-> IF applied'[req[r].user.phone].ret THEN 200 ELSE 500,
                phone |-> req[r].user.phone, user |-> req[r].user,
                body |-> IF applied'[req[r].user.phone].ret
                         THEN req[r].user ELSE NoUser,
                email |-> Outcome(email_ok),
                sched |-> Outcome(applied'[req[r].user.phone].ret)]
    /\ req' = [req EXCEPT ![r] = Idle]
    /\ UNCHANGED <<users, started, last, fireVars, listed, sheetVars>>

\* signup_user from its resumption after insert_one to return user:
\* send_welcome_email (which returns its failure, never raises), then
\* schedule_daily_reminders (whose False is only logged), then the response
SignupFinish(r, email_ok) ==
    /\ LoopFree
    /\ req[r].pc = "inserted"
    /\ ApiCall(req[r].user.phone, req[r].user.goals, req[r].user.reminder_times)
    /\ welcomed' = [welcomed EXCEPT ![req[r].user.phone] = @ + 1]
    /\ resp' = [kind |-> "signup", status |-> 200,
                phone |-> req[r].user.phone, user |-> req[r].user,
                body |-> signup_response(req[r].user, email_ok,
                                         applied'[req[r].user.phone].ret),
                email |-> Outcome(email_ok),
                sched |-> Outcome(applied'[req[r].user.phone].ret)]
    /\ req' = [req EXCEPT ![r] = Idle]
    /\ UNCHANGED <<users, started, last, fireVars, listed, sheetVars>>

\* mutation: the welcome email goes out before the user is persisted
SignupFail_WelcomesFirst(r, phone, goals, reminder_times) ==
    /\ LoopFree
    /\ FreeSlot(r)
    /\ started < MaxRequests
    /\ started' = started + 1
    /\ welcomed' = [welcomed EXCEPT ![phone] = @ + 1]
    /\ resp' = [kind |-> "signup", status |-> 500, phone |-> phone,
                user |-> User(phone, goals, reminder_times), body |-> NoUser, email |-> "ok", sched |-> "skipped"]
    /\ UNCHANGED <<users, jobs, req, last, applied, fireVars, listed, sheetVars>>

\* signup_user when User(...) or insert_one raises: the except branch
\* answers 500 before the email and the scheduling are reached
SignupFail(r, phone, goals, reminder_times) ==
    /\ LoopFree
    /\ FreeSlot(r)
    /\ started < MaxRequests
    /\ started' = started + 1
    /\ resp' = [kind |-> "signup", status |-> 500, phone |-> phone,
                user |-> User(phone, goals, reminder_times), body |-> NoUser, email |-> "skipped", sched |-> "skipped"]
    /\ UNCHANGED <<users, jobs, req, last, applied, fireVars, welcomed, listed, sheetVars>>

\* mutation: an update for a phone that is not stored goes on as if found
UpdateFind_NoCheck(r, phone, reminder_times) ==
    /\ LoopFree
    /\ FreeSlot(r)
    /\ started < MaxRequests
    /\ started' = started + 1
    /\ req' = [req EXCEPT ![r] = [pc |-> "found", phone |-> phone,
                                  times |-> reminder_times,
                                  user |-> IF HasUser(phone) THEN find_one(phone)
                                           ELSE User(phone, <<>>, reminder_times)]]
    /\ UNCHANGED <<users, jobs, last, applied, fireVars, outVars, listed, sheetVars>>

\* update_reminder_times up to the result of find_one; 404 when not found
UpdateFind(r, phone, reminder_times) ==
    /\ LoopFree
    /\ FreeSlot(r)
    /\ started < MaxRequests
    /\ started' = started + 1
    /\ req' = IF HasUser(phone)
              THEN [req EXCEPT ![r] = [pc |-> "found", phone |-> phone,
                                       times |-> reminder_times,
                                       user |-> find_one(phone)]]
              ELSE req
    /\ resp' = IF HasUser(phone)
               THEN resp
               ELSE [kind |-> "update", status |-> 404, phone |-> phone,
                     user |-> NoUser, body |-> NoUser, email |-> "skipped", sched |-> "skipped"]
    /\ UNCHANGED <<users, jobs, last, applied, fireVars, welcomed, listed, sheetVars>>

\* the database applies the update_one of the request
UpdateWrite(r) ==
    /\ LoopFree
    /\ req[r].pc = "found"
    /\ users' = update_one(req[r].phone, req[r].times)
    /\ req' = [req EXCEPT ![r].pc = "updated"]
    /\ UNCHANGED <<jobs, started, last, applied, fireVars, outVars, listed, sheetVars>>

\* update_reminder_times from its resumption after update_one to its response
UpdateFinish(r) ==
    /\ LoopFree
    /\ req[r].pc = "updated"
    /\ ApiCall(req[r].user.phone, req[r].user.goals, req[r].times)
    /\ resp' = [kind |-> "update",
                status |-> IF applied'[req[r].user.phone].ret THEN 200 ELSE 500,
                phone |-> req[r].phone, user |-> NoUser, body |-> NoUser,
                email |-> "skipped",
                sched |-> Outcome(applied'[req[r].user.phone].ret)]
    /\ req' = [req EXCEPT ![r] = Idle]
    /\ UNCHANGED <<users, started, last, fireVars, welcomed, listed, sheetVars>>

\* the requests of the users with these phones
ApiNext(P) ==
    \/ \E r \in Slots, p \in P, g \in GoalLists, t \in ApiTimeLists :
           SignupInsert(r, p, g, t)
    \/ \E r \in Slots, email_ok \in BOOLEAN : SignupFinish(r, email_ok)
    \/ \E r \in Slots, p \in P, g \in GoalLists, t \in ApiTimeLists :
           SignupFail(r, p, g, t)
    \/ \E r \in Slots, p \in P, t \in ApiTimeLists : UpdateFind(r, p, t)
    \/ \E r \in Slots : UpdateWrite(r)
    \/ \E r \in Slots : UpdateFinish(r)

Next == ApiNext(Phones)

Spec == Init /\ [][Next]_vars

(***************************************************************************)
(* SpecUser: the API handlers, with every request made for the same user.  *)
(***************************************************************************)
NextUser == ApiNext({PhoneB})

SpecUser == Init /\ [][NextUser]_vars

(***************************************************************************)
(* SpecTimes: signups, one at a time, of a user with one goal and one      *)
(* reminder time, over every local hour of the day.                        *)
(***************************************************************************)
NextTimes ==
    \/ \E p \in Phones, h \in 0..23, m \in Minutes :
           SignupInsert(1, p, SubSeq(GoalNames, 1, 1), <<HHMM(h, m)>>)
    \/ \E email_ok \in BOOLEAN : SignupFinish(1, email_ok)

SpecTimes == Init /\ [][NextTimes]_vars

(***************************************************************************)
(* SpecFire: the requests of one user and the firings of the scheduler.    *)
(* AsyncIOScheduler runs the coroutine send_whatsapp_message on the event  *)
(* loop; twilio_client.messages.create inside it is a synchronous call,    *)
(* so the loop runs nothing else until it returns or raises.               *)
(***************************************************************************)
\* mutation: a due job's coroutine starts while another send is in progress
FireStart_Concurrent(job) ==
    /\ job \in jobs
    /\ sending' = [busy |-> TRUE, id |-> job.id, to |-> job.phone, goal |-> job.goal]
    /\ UNCHANGED <<users, jobs, req, started, last, applied, fired, outVars, listed, sheetVars>>

\* the trigger of a job of the job store fires: the scheduler starts
\* send_whatsapp_message(user_phone, reminder_text), which enters
\* twilio_client.messages.create
FireStart(job) ==
    /\ LoopFree
    /\ job \in jobs
    /\ sending' = [busy |-> TRUE, id |-> job.id, to |-> job.phone, goal |-> job.goal]
    /\ UNCHANGED <<users, jobs, req, started, last, applied, fired, outVars, listed, sheetVars>>

\* mutation: a failed delivery removes the job from the job store
FireEnd_RemoveOnFailure(ok) ==
    /\ sending.busy
    /\ sending' = NoSend
    /\ fired' = [done |-> TRUE, id |-> sending.id, ok |-> ok]
    /\ jobs' = IF ok THEN jobs ELSE {j \in jobs : j.id # sending.id}
    /\ UNCHANGED <<users, req, started, last, applied, outVars, listed, sheetVars>>

\* messages.create returns (message.sid is returned) or raises (the except
\* branch logs and returns None); either way the coroutine ends
FireEnd(ok) ==
    /\ sending.busy
    /\ sending' = NoSend
    /\ fired' = [done |-> TRUE, id |-> sending.id, ok |-> ok]
    /\ UNCHANGED <<users, jobs, req, started, last, applied, outVars, listed, sheetVars>>

NextFire ==
    \/ ApiNext({PhoneB})
    \/ \E job \in jobs : FireStart(job)
    \/ \E ok \in BOOLEAN : FireEnd(ok)

SpecFire == Init /\ [][NextFire]_vars

(***************************************************************************)
(* SpecList: the requests of one user and the listing of the job store.    *)
(* get_scheduled_jobs has no await, and schedule_daily_reminders is a      *)
(* plain function: the event loop runs each of them without interruption.  *)
(***************************************************************************)
\* one entry of the answer: id, name and trigger of a job
JobView(j) ==
    [id |-> j.id, name |-> <<"Daily reminder for", j.goal>>,
     trigger |-> <<j.utc_hour, j.utc_minute>>]

\* the answer of get_scheduled_jobs for this job store
get_scheduled_jobs(js) ==
    [jobs |-> {JobView(j) : j \in js}, count |-> Cardinality(js)]

\* GET /scheduler/jobs; with the answer are kept the job store it read and
\* the plans applied up to then
ListJobs ==
    /\ LoopFree
    /\ listed' = [taken |-> TRUE, store |-> jobs, body |-> get_scheduled_jobs(jobs),
                  plans |-> applied]
    /\ UNCHANGED <<users, jobs, req, started, last, applied, fireVars, outVars, sheetVars>>

NextList ==
    \/ ApiNext({PhoneB})
    \/ ListJobs

SpecList == Init /\ [][NextList]_vars

(***************************************************************************)
(* SpecSheets: the sheets store (src/backend/sheets.py). A cell holds a    *)
(* string; the lists goals and reminder_times are joined into one cell     *)
(* each on the way in and split on the way out.                            *)
(***************************************************************************)
\* "|".join(list)
RECURSIVE join(_, _)
join(sep, list) ==
    IF list = <<>> THEN <<>>
    ELSE IF Len(list) = 1 THEN list[1]
    ELSE list[1] \o <<sep>> \o join(sep, Tail(list))

\* insert_user: sheet.append_row(values) with the two lists serialized
insert_user(user_data) ==
    /\ Len(sheet) < MaxRows
    /\ sheet' = Append(sheet, [phone |-> user_data.phone,
                               goals |-> join(Bar, user_data.goals),
                               reminder_times |-> join(Bar, user_data.reminder_times)])
    /\ inserted' = Append(inserted, user_data)
    /\ UNCHANGED <<users, jobs, req, started, last, applied, fireVars, outVars, listed, got>>

\* get_user_by_phone: the first row with this phone, its two cells split
get_user_by_phone(phone) ==
    /\ got' = IF \E k \in 1..Len(sheet) : sheet[k].phone = phone
              THEN LET k == CHOOSE i \in 1..Len(sheet) :
                                /\ sheet[i].phone = phone
                                /\ \A m \in 1..(i - 1) : sheet[m].phone # phone
                   IN [called |-> TRUE, found |-> TRUE, row |-> k, phone |-> phone,
                       goals |-> split(sheet[k].goals, Bar),
                       reminder_times |-> split(sheet[k].reminder_times, Bar)]
              ELSE [NoResult EXCEPT !.called = TRUE, !.phone = phone]
    /\ UNCHANGED <<users, jobs, req, started, last, applied, fireVars, outVars, listed,
                   sheet, inserted>>

NextSheets ==
    \/ \E p \in Phones, g \in SheetLists, t \in SheetTimeLists :
           insert_user([phone |-> p, goals |-> g, reminder_times |-> t])
    \/ \E p \in Phones : get_user_by_phone(p)

SpecSheets == Init /\ [][NextSheets]_vars

(***************************************************************************)
(* Vocabulary of the properties.                                           *)
(***************************************************************************)
Min(a, b) == IF a < b THEN a ELSE b

\* the jobs whose messages go to this phone
OwnedBy(js, phone) == {j \in js : j.phone = phone}

\* the identity of a job: user, source local hour and minute, pair index
Identity(j) == <<j.phone, j.hour, j.minute, j.idx>>

Identities(js) == {Identity(j) : j \in js}

\* number of (goal, time) pairs of a plan
Pairs(goals, times) == Min(Len(goals), Len(times))

\* a time string of the form H:M with hour in [0,23] and minute in [0,59]
ValidTime(s) ==
    /\ ParseTime(s).ok
    /\ ParseTime(s).hour \in 0..23
    /\ ParseTime(s).minute \in 0..59

\* a time string for which the loop body installs a job
Accepted(s) ==
    /\ ParseTime(s).ok
    /\ CronTrigger(UtcHour(ParseTime(s).hour), ParseTime(s).minute)

PairIdentity(phone, times, i) ==
    <<phone, ParseTime(times[i]).hour, ParseTime(times[i]).minute, i - 1>>

\* identities of the plan: one per pair
PlanIdentities(phone, goals, times) ==
    {PairIdentity(phone, times, i) : i \in 1..Pairs(goals, times)}

\* identities of the pairs of the plan that the loop body accepts
AcceptedIdentities(phone, goals, times) ==
    {PairIdentity(phone, times, i) : i \in {k \in 1..Pairs(goals, times) : Accepted(times[k])}}

Called == last.n > 0

(***************************************************************************)
(* C1: after schedule_daily_reminders(U, goals, times) returns True, the   *)
(* jobs owned by U are exactly the jobs of the new plan, one per pair      *)
(* index, keyed by the new local hour and minute; no job of an earlier     *)
(* plan of U remains.                                                      *)
(***************************************************************************)
C1_SuccessLeavesExactlyNewPlan ==
    (Called /\ last.ret) =>
        /\ Identities(OwnedBy(jobs, last.phone))
               = PlanIdentities(last.phone, last.goals, last.times)
        /\ Cardinality(OwnedBy(jobs, last.phone)) = Pairs(last.goals, last.times)

\* a successful call replaced jobs of an earlier plan of the same user
C1_Witness ==
    /\ last.n >= 2
    /\ last.ret
    /\ OwnedBy(jobs, last.phone) # {}
    /\ \E j \in OwnedBy(last.pre, last.phone) : j \notin jobs

(***************************************************************************)
(* C2: schedule_daily_reminders(U, ...) leaves the jobs of every other     *)
(* user V # U unchanged, also when U's string occurs inside V's job ids.   *)
(***************************************************************************)
C2_OtherUsersJobsUnchanged ==
    Called =>
        {j \in jobs : j.phone # last.phone} = {j \in last.pre : j.phone # last.phone}

(***************************************************************************)
(* C3: after any call, returning True or False, U's job set is either the  *)
(* complete set U had before the call or the complete set of the new plan. *)
(* (The new plan is read in the way most favourable to the code: the       *)
(* pairs the loop body accepts.)                                           *)
(***************************************************************************)
C3_AllOrNothing ==
    Called =>
        \/ OwnedBy(jobs, last.phone) = OwnedBy(last.pre, last.phone)
        \/ Identities(OwnedBy(jobs, last.phone))
               = AcceptedIdentities(last.phone, last.goals, last.times)

(***************************************************************************)
(* C4: a malformed reminder time is skipped for its pair only: every valid *)
(* pair of the same batch, before and after it, has its job installed.     *)
(***************************************************************************)
C4_ValidPairsInstalled ==
    Called =>
        \A i \in 1..Pairs(last.goals, last.times) :
            ValidTime(last.times[i]) =>
                PairIdentity(last.phone, last.times, i) \in Identities(jobs)

(***************************************************************************)
(* C5: every job's source local hour is in 0..23 and its minute in 0..59.  *)
(***************************************************************************)
C5_JobTimesInRange ==
    \A j \in jobs : j.hour \in 0..23 /\ j.minute \in 0..59

\* every time of the list is valid
AllValid(times) == \A i \in 1..Len(times) : ValidTime(times[i])

(***************************************************************************)
(* C7: for goal lists and lists of valid reminder times of any lengths,    *)
(* the call succeeds and installs exactly min(len(goals), len(times))      *)
(* jobs, the i-th pairing goals[i] with reminder_times[i].                 *)
(***************************************************************************)
C7_PairsByIndex ==
    (Called /\ AllValid(last.times)) =>
        /\ last.ret
        /\ Cardinality(OwnedBy(jobs, last.phone)) = Pairs(last.goals, last.times)
        /\ \A i \in 1..Pairs(last.goals, last.times) :
               \E j \in OwnedBy(jobs, last.phone) :
                   /\ j.idx = i - 1
                   /\ j.goal = last.goals[i]
                   /\ j.hour = ParseTime(last.times[i]).hour
                   /\ j.minute = ParseTime(last.times[i]).minute

\* lists of unequal lengths, in both directions, with at least one pair
C7_Witness ==
    /\ Called
    /\ AllValid(last.times)
    /\ Len(last.times) > Len(last.goals)
    /\ Len(last.goals) >= 1
    /\ Cardinality(OwnedBy(jobs, last.phone)) = Len(last.goals)

(***************************************************************************)
(* C8: a call that repeats the arguments of the call before it leaves the  *)
(* job store as the first of the two calls left it.                        *)
(***************************************************************************)
C8_Idempotent == last.repeat => jobs = last.pre

\* the repeated pair of calls started from a job store that an earlier call
\* had filled, and the first of the two changed it
C8_Witness ==
    /\ last.repeat
    /\ last.n >= 3
    /\ jobs # {}
    /\ \E j \in jobs : j.phone # last.phone

\* hours east of UTC of a User.timezone value
OffsetHours(tz) == CASE tz = "GMT+1" -> 1 [] tz = "GMT" -> 0

(***************************************************************************)
(* C6: for every installed job the trigger's UTC hour is                   *)
(* (local_hour - offset) mod 24, offset being the timezone offset of the   *)
(* user who owns the job, and the trigger minute is the local minute.      *)
(***************************************************************************)
C6_UtcHourIsLocalMinusOffset ==
    \A j \in jobs :
        /\ HasUser(j.phone)
        /\ \A k \in 1..Len(users) :
               users[k].phone = j.phone =>
                   /\ j.utc_hour = (j.hour - OffsetHours(users[k].timezone)) % 24
                   /\ j.utc_minute = j.minute

\* the wrap: a job for local 00:59 fires at UTC 23:59, next to one that
\* does not wrap
C6_Witness ==
    /\ \E j \in jobs : j.hour = 0 /\ j.utc_hour = 23 /\ j.utc_minute = 59
    /\ \E j \in jobs : j.hour = 23 /\ j.utc_hour = 22

\* no request is in progress
Quiescent == \A r \in Slots : req[r].pc = "idle"

(***************************************************************************)
(* C9: once all requests have completed, the jobs owned by a user are jobs *)
(* of the plan most recently applied for that user, and are no more than   *)
(* the pairs of that plan.                                                 *)
(***************************************************************************)
C9_NoStaleJobsWhenQuiescent ==
    Quiescent =>
        \A p \in Phones :
            /\ Identities(OwnedBy(jobs, p))
                   \subseteq AcceptedIdentities(p, applied[p].goals, applied[p].times)
            /\ Cardinality(OwnedBy(jobs, p)) <= Pairs(applied[p].goals, applied[p].times)

\* one stored user, all three requests completed, and the stored times are
\* not those of the plan applied last: the two updates of the user
\* interleaved
C9_Witness ==
    /\ Quiescent
    /\ started = MaxRequests
    /\ Len(users) = 1
    /\ applied[users[1].phone].times # users[1].reminder_times
    /\ OwnedBy(jobs, users[1].phone) # {}

\* the jobs installed in an empty job store for a stored document
PlanOf(user) ==
    schedule_daily_reminders({}, user.phone, user.goals, user.reminder_times).jobs

(***************************************************************************)
(* C10: whenever no request is in progress, each user's jobs are the jobs  *)
(* of the reminder_times and goals stored for that user. (Read in the way  *)
(* most favourable to the code: the jobs that schedule_daily_reminders     *)
(* installs in an empty job store for the lists of a stored document of    *)
(* the user.)                                                              *)
(***************************************************************************)
C10_JobsMatchStoredState ==
    Quiescent =>
        \A p \in Phones :
            IF HasUser(p)
            THEN \E k \in 1..Len(users) :
                     users[k].phone = p /\ OwnedBy(jobs, p) = PlanOf(users[k])
            ELSE OwnedBy(jobs, p) = {}

\* a send is in progress for this job of the job store
Sending(j) == sending.busy /\ sending.id = j.id

(***************************************************************************)
(* C11: while one send_whatsapp_message call is in progress, another job   *)
(* of the job store can start firing.                                      *)
(***************************************************************************)
C11_SlowSendDoesNotBlockFirings ==
    \A j \in jobs, k \in jobs :
        (Sending(j) /\ k # j) => ENABLED FireStart(k)

(***************************************************************************)
(* C12: a delivery that fails leaves the job store unchanged, the job      *)
(* stays in it (it is scheduled again and can fire at its next             *)
(* occurrence), and the failed send is not attempted again: the coroutine  *)
(* ends, no send is in progress after it.                                  *)
(***************************************************************************)
C12_FailedDeliveryKeepsJob ==
    [][(sending.busy /\ ~sending'.busy /\ ~fired'.ok) =>
          /\ jobs' = jobs
          /\ sending' = NoSend
          /\ \E j \in jobs' : j.id = sending.id]_vars

\* the job whose last delivery failed is firing again
C12_Witness ==
    /\ fired.done
    /\ ~fired.ok
    /\ sending.busy
    /\ sending.id = fired.id

\* the number of stored documents with this phone
Stored(us, phone) == Cardinality({k \in 1..Len(us) : us[k].phone = phone})

\* the last response answers a signup in which a sub-step failed
SubStepFailed ==
    /\ resp.kind = "signup"
    /\ (resp.email = "failed" \/ resp.sched = "failed")

(***************************************************************************)
(* C13: a signup whose welcome email failed or whose scheduling failed is  *)
(* answered with status 200 and the user record of the request, and a      *)
(* document of that user is stored (its reminder_times may since have been *)
(* updated).                                                               *)
(***************************************************************************)
C13_SignupSucceedsDespiteFailures ==
    SubStepFailed =>
        /\ resp.status = 200
        /\ resp.body = resp.user
        /\ \E k \in 1..Len(users) :
               [users[k] EXCEPT !.reminder_times = resp.user.reminder_times]
                   = resp.user

\* a signup answered after both its email and its scheduling failed
C13_Witness ==
    /\ resp.kind = "signup"
    /\ resp.email = "failed"
    /\ resp.sched = "failed"
    /\ resp.status = 200
    /\ HasUser(resp.phone)

(***************************************************************************)
(* C14: the response to a signup in which the email or the scheduling      *)
(* failed differs from the response the same signup gets when every        *)
(* sub-step succeeds.                                                      *)
(***************************************************************************)
C14_ResponseReportsFailedStep ==
    (SubStepFailed /\ resp.status = 200) =>
        resp.body # signup_response(resp.user, TRUE, TRUE)

(***************************************************************************)
(* C15: no two stored users share a phone.                                 *)
(***************************************************************************)
C15_PhonesUnique ==
    \A k \in 1..Len(users), m \in 1..Len(users) :
        users[k].phone = users[m].phone => k = m

(***************************************************************************)
(* C16: an update for a phone that has no stored user is answered 404 and  *)
(* changes neither the stored users nor the job store, and leaves no       *)
(* request in progress that could change them later.                       *)
(***************************************************************************)
C16_UnknownPhoneUpdateRejected ==
    [][\A r \in Slots, p \in Phones, t \in ApiTimeLists :
           (~HasUser(p) /\ UpdateFind(r, p, t)) =>
               /\ resp'.kind = "update"
               /\ resp'.status = 404
               /\ resp'.phone = p
               /\ users' = users
               /\ jobs' = jobs
               /\ req' = req]_vars

\* an unknown phone was answered 404 while another user is stored and has
\* jobs
C16_Witness ==
    /\ resp.kind = "update"
    /\ resp.status = 404
    /\ ~HasUser(resp.phone)
    /\ users # <<>>
    /\ jobs # {}

(***************************************************************************)
(* C19: a signup whose insert fails is answered 500, sends no welcome      *)
(* email and leaves the stored users and the job store unchanged; a        *)
(* welcome email is sent only by a signup request whose user is already    *)
(* stored, once, in the step that then schedules the reminders and ends    *)
(* the request; so the emails sent for a phone are never more than the     *)
(* documents stored for it.                                                *)
(***************************************************************************)
C19_PersistThenEmailThenSchedule ==
    [][/\ \A r \in Slots, p \in Phones, g \in GoalLists, t \in ApiTimeLists :
              SignupFail(r, p, g, t) =>
                  /\ resp'.kind = "signup"
                  /\ resp'.status = 500
                  /\ welcomed' = welcomed
                  /\ users' = users
                  /\ jobs' = jobs
                  /\ req' = req
       /\ \A p \in Phones :
              /\ welcomed'[p] <= Stored(users', p)
              /\ welcomed'[p] # welcomed[p] =>
                     /\ welcomed'[p] = welcomed[p] + 1
                     /\ HasUser(p)
                     /\ applied'[p].called
                     /\ \E r \in Slots :
                            /\ req[r].pc = "inserted"
                            /\ req[r].user.phone = p
                            /\ req'[r] = Idle]_vars

\* a signup failed at the insert for a phone that is not stored and was
\* never welcomed, next to a user who signed up and has jobs
C19_Witness ==
    /\ resp.kind = "signup"
    /\ resp.status = 500
    /\ ~HasUser(resp.phone)
    /\ welcomed[resp.phone] = 0
    /\ \E p \in Phones : welcomed[p] = 1 /\ OwnedBy(jobs, p) # {}

(***************************************************************************)
(* C17: no firing starts for a job that a reconciliation removed: a send   *)
(* in progress is for a job of the plan most recently applied for its      *)
(* user.                                                                   *)
(***************************************************************************)
C17_NoFiringOfRemovedJob ==
    sending.busy =>
        /\ \E j \in jobs : j.id = sending.id
        /\ \A j \in jobs :
               j.id = sending.id =>
                   Identity(j) \in AcceptedIdentities(j.phone, applied[j.phone].goals,
                                                       applied[j.phone].times)

\* a job of the user's current plan is firing, and the reconciliation that
\* applied the plan removed a job of the plan before it
C17_Witness ==
    /\ sending.busy
    /\ \E j \in applied[sending.to].pre : j \notin jobs

\* the jobs of this phone that the last listing shows
Seen(p) == {j \in OwnedBy(listed.store, p) : JobView(j) \in listed.body.jobs}

C20_SheetsRoundTrip ==
    got.found =>
        /\ got.goals = inserted[got.row].goals
        /\ got.reminder_times = inserted[got.row].reminder_times

====
